---- MODULE Spec2Model ----
(***************************************************************************)
(* The resumable streaming playback engine of src/bot.js (the "Higher-er   *)
(* Podcast v1" program, lines 344-1064): episode selection, the start of a *)
(* segment (playCurrent), the start-up watchdog, the retry timers, the     *)
(* player's Idle/error handlers, the presence gate (voiceStateUpdate) and  *)
(* the control handlers (skip, restart, pause, resume).                    *)
(*                                                                         *)
(* One action is one run-to-completion callback of the Node event loop. An *)
(* async function is cut at each await that other callbacks can interleave *)
(* with: playCurrent at "await axiosStream" (line 670), the control        *)
(* handlers at "await interaction.reply" (lines 887, 894, 917).            *)
(*                                                                         *)
(* The audio player and the ffmpeg child are the environment. The player   *)
(* follows @discordjs/voice: play(resource) enters Buffering and destroys  *)
(* the resource it replaces; a readable resource makes it Playing; a       *)
(* resource whose stream ended makes the player Idle, also a Paused one,   *)
(* at its next audio cycle (the Idle listener runs inside that             *)
(* transition); a stream error emits 'error' and then makes the player     *)
(* Idle.                                                                   *)
(* Timers are not timed: an armed timer may fire at any later step.        *)
(* Announcements, the presence text and the log are not modelled.          *)
(***************************************************************************)
EXTENDS Integers, Sequences, FiniteSets

\* ------------------------------------------------------------- bounds
MaxSegs == 2        \* segments (ffmpeg children) that are live or have a timer pending at once
MaxTicks == 2       \* clock advances while a segment plays, in one run
MaxTimers == 2      \* setTimeout(loopPlay) timers pending at once
MaxPending == 1     \* control handlers suspended at "await interaction.reply"
MaxHumans == 1      \* non-bot members of the voice channel
MaxSession == 3     \* Disconnected listeners, tear-down timers, ensureConnection calls pending

\* ---------------------------------------------------- program constants
RESUME_RESTART_THRESHOLD_MS == 300000

\* The clock advances by one of these amounts (ms).
TickSteps == {10000, RESUME_RESTART_THRESHOLD_MS}

\* How long the listener of the scenario stays away (ms): less than the
\* threshold, or more.
AwaySteps == {10000, RESUME_RESTART_THRESHOLD_MS + 10000}

\* What the feed can hold: collections sorted by pubDate, oldest first.
Feeds == { <<"A", "B">>, <<"A", "B", "C">> }

\* Date.now() is kept relative: the program computes only the difference of a
\* reading and startedAtMs (802, 858, 902), so the reading at the latest first
\* bytes is given the same positive value each time.
Epoch == 10000

NaN == -1           \* the value of x % 0 and of NaN + 1 in JavaScript
NoEpisode == "null" \* currentEpisode before the first start
Undefined == "undefined"   \* episodes[NaN]

SegIds == 1..MaxSegs

\* Collections of distinct episodes, for the cursor arithmetic alone.
MaxLen == 5
Titles == <<"A", "B", "C", "D", "E", "F", "G", "H">>
Queues == {SubSeq(Titles, 1, n) : n \in 1..MaxLen}

VARIABLES
  \* ---- the program's module-level state (src/bot.js 451-452, 528-534)
  episodes,            \* the active collection
  episodeIndex,        \* the queue cursor
  hasStartedPlayback,
  isPausedDueToEmpty,
  resumeOffsetMs,
  startedAtMs,
  ffmpegProc,          \* 0 is null, 1 is the child of the latest segment
  currentEpisode,
  playLock,
  \* ---- the runtime: suspended async functions, timers, children, the player
  fetching,            \* playCurrent invocations suspended at await axiosStream
  pendingCalls,        \* control handlers suspended before their playCurrent()
  loopTimers,          \* pending setTimeout(loopPlay, ...) timers
  segs,                \* the segments, the latest first: child alive, gotData, watchdog armed
  playerStatus,        \* player.state.status
  playerRes,           \* 1 when the player's resource is the latest segment's stdout, else 0
  now,                 \* Date.now()
  ticks,
  \* ---- history (read by the properties only)
  dropped,             \* a playCurrent() call returned at the lock during the start in flight
  pausedBy,            \* why isPausedDueToEmpty was last set, and whether a start was in flight
  scn,                 \* progress of the listener leaves/rejoins scenario
  exp                  \* after a watchdog acted, a skip, a restart or the end of a segment:
                       \* the episode the next segment should play

\* ---- the voice session and the process (src/bot.js 746-747, 1047, 1053-1058)
VARIABLES
  connection,          \* 0 is null, 1 is a VoiceConnection object
  connStatus,          \* the status of that object
  subscribed,          \* the player is subscribed to the connection
  keepAliveInterval,   \* 0 is null, 1 is armed on the connection, 2 on a destroyed one
  refreshInterval,     \* setInterval(fetchEpisodes) is armed
  graceWaits,          \* Disconnected listeners suspended at "await Promise.race"
  rejoinTimers,        \* pending setTimeout(tear down and rejoin) timers
  joining,             \* ensureConnection calls suspended at "await client.channels.fetch"
  exited,              \* process.exit was called
  shutLog              \* what the SIGTERM listener did, in order

prog == <<episodes, episodeIndex, hasStartedPlayback, isPausedDueToEmpty,
          resumeOffsetMs, startedAtMs, ffmpegProc, currentEpisode, playLock>>
rt == <<fetching, pendingCalls, loopTimers, segs, playerStatus, playerRes,
        now, ticks>>
hist == <<dropped, pausedBy, scn, exp>>
session == <<connection, connStatus, subscribed, keepAliveInterval, refreshInterval,
             graceWaits, rejoinTimers, joining, exited, shutLog>>
vars == <<prog, rt, hist, session>>

\* --------------------------------------------------------- pure helpers
Max(a, b) == IF a >= b THEN a ELSE b

\* JavaScript's a % n on the values the program produces.
Mod(a, n) == IF a = NaN \/ n = 0 THEN NaN ELSE a % n

\* An advance that moves the cursor by two.
AdvanceSkipsOne(i, eps) == IF i = NaN THEN NaN ELSE Mod(i + 2, Len(eps))

\* (episodeIndex + 1) % episodes.length
Advance(i, eps) == IF i = NaN THEN NaN ELSE Mod(i + 1, Len(eps))

\* episodes[episodeIndex % episodes.length]
EpisodeAt(i, eps) ==
  IF Mod(i, Len(eps)) = NaN THEN Undefined ELSE eps[Mod(i, Len(eps)) + 1]

\* The elapsed time with the operands exchanged and no Math.max.
ElapsedReversed(t, started) == IF started = 0 THEN 0 ELSE started - t

\* Math.max(0, Date.now() - (startedAtMs || Date.now()))
Elapsed(t, started) == IF started = 0 THEN 0 ELSE Max(0, t - started)

\* The seek argument with the seconds taken for milliseconds.
SeekMsUnscaled(offsetMs) == offsetMs \div 1000

\* the -ss argument of ffmpeg, Math.floor(offsetMs / 1000) seconds, in ms
SeekMs(offsetMs) == (offsetMs \div 1000) * 1000

NoSeg == [alive |-> FALSE, gotData |-> FALSE, wd |-> FALSE]

ScnOff == [phase |-> "off", played |-> 0, absence |-> 0, ep |-> "null", off |-> 0]
ScnBoot == [ScnOff EXCEPT !.phase = "boot"]
NoExp == [why |-> "none", ep |-> NoEpisode]
NotPaused == [cause |-> "none", inFlight |-> FALSE]

\* ------------------------------------------------------ history updates
\* pausedBy after a step; cause is "empty" or "manual" in a step that pauses
\* and "control" in a skip or a restart.
PausedAfter(cause) ==
  IF ~isPausedDueToEmpty' THEN NotPaused
  ELSE IF cause # "none" THEN [cause |-> cause, inFlight |-> fetching > 0]
  ELSE [pausedBy EXCEPT !.inFlight = @ /\ fetching' > 0]

\* dropped after a step whose call of playCurrent() had the result call.
DroppedAfter(call) ==
  IF fetching' = 0 THEN FALSE ELSE (dropped \/ call = "dropped")

\* The scenario of spec section 8: the queue is [A, B]; the first listener joins
\* and A starts; the listener leaves while A plays; the listener rejoins. In
\* its variant the listener leaves while A is still starting (phase s1left); in
\* another the listener stays and pauses A by command (phase mpaused). Any
\* step that is not part of it (a control operation, a failure, a timer, a
\* refresh after the first join) ends the scenario.
Scn(e) ==
  CASE e = "tick" /\ scn.phase \in {"s1data", "s1play"}
         -> [scn EXCEPT !.played = @ + (now' - now)]
    [] e = "tick" /\ scn.phase = "paused" -> [scn EXCEPT !.absence = @ + (now' - now)]
    [] e = "tick" -> scn
    [] e = "feed" /\ scn.phase = "boot" -> scn
    [] e = "join" /\ scn.phase = "boot" /\ episodes = <<"A", "B">> /\ episodeIndex = 0
         -> [scn EXCEPT !.phase = "s1fetch"]
    [] e = "fetched" /\ scn.phase = "s1fetch" -> [scn EXCEPT !.phase = "s1spawn"]
    [] e = "leave" /\ scn.phase \in {"s1fetch", "s1spawn"} -> [scn EXCEPT !.phase = "s1left"]
    [] e \in {"fetched", "data", "readable"} /\ scn.phase = "s1left" -> scn
    [] e = "data" /\ scn.phase = "s1spawn" -> [scn EXCEPT !.phase = "s1data"]
    [] e = "readable" /\ scn.phase = "s1data" -> [scn EXCEPT !.phase = "s1play"]
    [] e = "leave" /\ scn.phase = "s1play" -> [scn EXCEPT !.phase = "paused"]
    [] e = "pause" /\ scn.phase = "s1play" -> [scn EXCEPT !.phase = "mpaused"]
    [] e = "idle" /\ scn.phase \in {"paused", "mpaused"} -> scn
    [] e = "join" /\ scn.phase = "paused" -> [scn EXCEPT !.phase = "s2fetch"]
    [] e = "fetched" /\ scn.phase = "s2fetch"
         -> [scn EXCEPT !.phase = "s2spawn", !.ep = currentEpisode,
                        !.off = SeekMs(resumeOffsetMs)]
    [] OTHER -> ScnOff

\* ------------------------------------------------------------ playCurrent
\* What a call of playCurrent() does before it returns or suspends.
CallResult ==
  IF playLock THEN "dropped"
  ELSE IF Len(episodes) = 0 THEN "empty"
  ELSE IF EpisodeAt(episodeIndex, episodes) = Undefined THEN "threw"
  ELSE "begun"

\* playCurrent() whose empty-queue return leaves without releasing playLock.
PlayCurrentCallLeaksOnEmpty(off, timers) ==
  IF playLock THEN
    /\ resumeOffsetMs' = off
    /\ loopTimers' = timers
    /\ UNCHANGED <<playLock, currentEpisode, fetching, episodeIndex>>
  ELSE IF Len(episodes) = 0 THEN
    /\ resumeOffsetMs' = off
    /\ loopTimers' = timers + 1
    /\ playLock' = TRUE
    /\ UNCHANGED <<currentEpisode, fetching, episodeIndex>>
  ELSE IF EpisodeAt(episodeIndex, episodes) = Undefined THEN
    /\ currentEpisode' = Undefined
    /\ resumeOffsetMs' = 0
    /\ episodeIndex' = Advance(episodeIndex, episodes)
    /\ loopTimers' = timers + 1
    /\ UNCHANGED <<playLock, fetching>>
  ELSE
    /\ currentEpisode' = EpisodeAt(episodeIndex, episodes)
    /\ playLock' = TRUE
    /\ fetching' = fetching + 1
    /\ resumeOffsetMs' = off
    /\ loopTimers' = timers
    /\ UNCHANGED episodeIndex

\* playCurrent() without the check of playLock at its entry.
PlayCurrentCallNoLock(off, timers) ==
  IF Len(episodes) = 0 THEN
    /\ resumeOffsetMs' = off
    /\ loopTimers' = timers + 1
    /\ UNCHANGED <<playLock, currentEpisode, fetching, episodeIndex>>
  ELSE IF EpisodeAt(episodeIndex, episodes) = Undefined THEN
    /\ currentEpisode' = Undefined
    /\ resumeOffsetMs' = 0
    /\ episodeIndex' = Advance(episodeIndex, episodes)
    /\ loopTimers' = timers + 1
    /\ UNCHANGED <<playLock, fetching>>
  ELSE
    /\ currentEpisode' = EpisodeAt(episodeIndex, episodes)
    /\ playLock' = TRUE
    /\ fetching' = fetching + 1
    /\ resumeOffsetMs' = off
    /\ loopTimers' = timers
    /\ UNCHANGED episodeIndex

\* playCurrent() up to "await axiosStream" (lines 651-670), called with
\* resumeOffsetMs = off and timers timers pending (what the caller left).
PlayCurrentCall(off, timers) ==
  IF playLock THEN                                    \* 652
    /\ resumeOffsetMs' = off
    /\ loopTimers' = timers
    /\ UNCHANGED <<playLock, currentEpisode, fetching, episodeIndex>>
  ELSE IF Len(episodes) = 0 THEN                      \* 656-660, 719
    /\ resumeOffsetMs' = off
    /\ loopTimers' = timers + 1
    /\ UNCHANGED <<playLock, currentEpisode, fetching, episodeIndex>>
  ELSE IF EpisodeAt(episodeIndex, episodes) = Undefined THEN   \* 662, 667 throws, 713-719
    /\ currentEpisode' = Undefined
    /\ resumeOffsetMs' = 0
    /\ episodeIndex' = Advance(episodeIndex, episodes)
    /\ loopTimers' = timers + 1
    /\ UNCHANGED <<playLock, fetching>>
  ELSE                                                \* 653, 662, 670
    /\ currentEpisode' = EpisodeAt(episodeIndex, episodes)
    /\ playLock' = TRUE
    /\ fetching' = fetching + 1
    /\ resumeOffsetMs' = off
    /\ loopTimers' = timers
    /\ UNCHANGED episodeIndex

\* loopPlay() (lines 723-726) with hasStartedPlayback = started.
LoopResult(started) ==
  IF ~started \/ isPausedDueToEmpty THEN "none" ELSE CallResult

LoopPlay(started, off, timers) ==
  IF ~started \/ isPausedDueToEmpty
  THEN /\ resumeOffsetMs' = off
       /\ loopTimers' = timers
       /\ UNCHANGED <<playLock, currentEpisode, fetching, episodeIndex>>
  ELSE PlayCurrentCall(off, timers)

\* A superseded segment stays in the list while its child runs or its watchdog
\* is pending. gotData is a variable of the closure of one playCurrent call:
\* once the watchdog is gone and the player has destroyed the stream, nothing
\* reads it, and the segment is recorded with gotData false.
Busy(r) == r.alive \/ r.wd

Forgotten(r) == IF r.wd THEN r ELSE [r EXCEPT !.gotData = FALSE]

\* The list sg with the player's resource res, as it is recorded.
Tidy(sg, res) ==
  <<IF res = 0 THEN Forgotten(sg[1]) ELSE sg[1]>> \o SelectSeq(Tail(sg), Busy)

\* The list after a spawn: the new segment first, the others superseded.
Superseded(sg) == SelectSeq([i \in 1..Len(sg) |-> Forgotten(sg[i])], Busy)

\* The children that ffmpegProc?.kill('SIGKILL') leaves, in the list sg.
Kill(sg) == [i \in 1..Len(sg) |->
               [sg[i] EXCEPT !.alive = IF i = 1 /\ ffmpegProc = 1 THEN FALSE ELSE @]]

\* The new segment of a start whose fetch resolved (lines 672-683): the child
\* runs, gotData is false, the watchdog is armed.
NewSeg == [alive |-> TRUE, gotData |-> FALSE, wd |-> TRUE]

\* "await axiosStream" resolved: lines 671-711 and 719.
PlayCurrentFetched ==
  /\ fetching > 0
  /\ Len(Superseded(segs)) < MaxSegs
  /\ segs' = <<NewSeg>> \o Superseded(segs)           \* 672-683
  /\ ffmpegProc' = 1                                  \* 672
  /\ playerStatus' = "buffering"                      \* 710: player.play(resource)
  /\ playerRes' = 1
  /\ isPausedDueToEmpty' = FALSE                      \* 711
  /\ playLock' = FALSE                                \* 719
  /\ fetching' = fetching - 1
  /\ UNCHANGED <<episodes, episodeIndex, hasStartedPlayback, resumeOffsetMs, startedAtMs,
                 currentEpisode, pendingCalls, loopTimers, now, ticks>>
  /\ UNCHANGED session
  /\ dropped' = DroppedAfter("none")
  /\ pausedBy' = PausedAfter("none")
  /\ scn' = Scn("fetched")
  /\ exp' = NoExp

\* The failed start without the release of playLock in "finally".
PlayCurrentFailedKeepsLock ==
  /\ fetching > 0
  /\ resumeOffsetMs' = 0
  /\ episodeIndex' = Advance(episodeIndex, episodes)
  /\ loopTimers' = loopTimers + 1
  /\ loopTimers' <= MaxTimers
  /\ playLock' = playLock
  /\ fetching' = fetching - 1
  /\ UNCHANGED <<episodes, hasStartedPlayback, isPausedDueToEmpty, startedAtMs, ffmpegProc,
                 currentEpisode, pendingCalls, segs, playerStatus, playerRes, now, ticks>>
  /\ UNCHANGED session
  /\ dropped' = DroppedAfter("none")
  /\ pausedBy' = PausedAfter("none")
  /\ scn' = Scn("failed")
  /\ exp' = NoExp

\* "await axiosStream" rejected, or spawn threw: lines 713-719.
PlayCurrentFailed ==
  /\ fetching > 0
  /\ resumeOffsetMs' = 0                              \* 715
  /\ episodeIndex' = Advance(episodeIndex, episodes)  \* 716
  /\ loopTimers' = loopTimers + 1                     \* 717
  /\ loopTimers' <= MaxTimers
  /\ playLock' = FALSE                                \* 719
  /\ fetching' = fetching - 1
  /\ UNCHANGED <<episodes, hasStartedPlayback, isPausedDueToEmpty, startedAtMs, ffmpegProc,
                 currentEpisode, pendingCalls, segs, playerStatus, playerRes, now, ticks>>
  /\ UNCHANGED session
  /\ dropped' = DroppedAfter("none")
  /\ pausedBy' = PausedAfter("none")
  /\ scn' = Scn("failed")
  /\ exp' = NoExp

\* -------------------------------------------------- the player's listeners
\* player.on(Idle) (lines 728-734) on st = [off, idx, timers].
OnIdle(st) ==
  IF ~isPausedDueToEmpty
  THEN [off |-> 0, idx |-> Advance(st.idx, episodes), timers |-> st.timers + 1]
  ELSE st

\* player.on('error') (lines 736-743) on st = [off, idx, timers].
OnError(st) ==
  IF ~isPausedDueToEmpty
  THEN [off |-> 0, idx |-> Advance(st.idx, episodes), timers |-> st.timers + 1]
  ELSE st

Here == [off |-> resumeOffsetMs, idx |-> episodeIndex, timers |-> loopTimers]

\* Events between a watchdog's action and the next start keep the expectation.
KeepExp == exp' = exp

\* Events that continue what a step of one of the kinds in ws began keep its
\* expectation; for any other kind the expectation ends.
KeepExpOf(ws) == exp' = IF exp.why \in ws THEN exp ELSE NoExp

\* ---------------------------------------------------------- environment
\* The program reads the clock at first bytes (688) and, while the player is
\* Playing, at a pause (802, 902) and in nowplaying (858), always as the time
\* since the first bytes of the player's resource. The clock is advanced only
\* while that time runs: an advance elsewhere changes no difference that the
\* program computes.
ClockRead ==
  playerRes = 1 /\ segs[1].gotData /\ playerStatus \in {"buffering", "playing"}

Tick(d) ==
  /\ ticks < MaxTicks
  /\ ClockRead
  /\ ticks' = ticks + 1
  /\ now' = now + d
  /\ UNCHANGED <<prog, fetching, pendingCalls, loopTimers, segs, playerStatus, playerRes>>
  /\ UNCHANGED session
  /\ dropped' = DroppedAfter("none")
  /\ pausedBy' = PausedAfter("none")
  /\ scn' = Scn("tick")
  /\ KeepExp

\* The listener of the scenario stays away for d ms: time passes while the
\* channel is empty and playback is paused.
Away(d) ==
  /\ scn.phase = "paused" /\ scn.absence = 0
  /\ now' = now + d
  /\ UNCHANGED <<prog, fetching, pendingCalls, loopTimers, segs, playerStatus, playerRes,
                 ticks>>
  /\ UNCHANGED session
  /\ dropped' = DroppedAfter("none")
  /\ pausedBy' = PausedAfter("none")
  /\ scn' = Scn("tick")
  /\ KeepExp

\* fetchEpisodes() without its check of items.length.
FetchEpisodesAlwaysReplaces(items) ==
  /\ episodes' = items
  /\ UNCHANGED <<episodeIndex, hasStartedPlayback, isPausedDueToEmpty, resumeOffsetMs,
                 startedAtMs, ffmpegProc, currentEpisode, playLock, rt>>
  /\ UNCHANGED session
  /\ dropped' = DroppedAfter("none")
  /\ pausedBy' = PausedAfter("none")
  /\ scn' = Scn("feed")
  /\ exp' = IF episodes' = episodes THEN exp ELSE NoExp

\* fetchEpisodes() (lines 454-479) once the feed answered with items (sorted,
\* line 471); an empty list and a thrown error both leave episodes alone.
FetchEpisodes(items) ==
  /\ episodes' = IF Len(items) > 0 THEN items ELSE episodes     \* 472-475
  /\ UNCHANGED <<episodeIndex, hasStartedPlayback, isPausedDueToEmpty, resumeOffsetMs,
                 startedAtMs, ffmpegProc, currentEpisode, playLock, rt>>
  /\ UNCHANGED session
  /\ dropped' = DroppedAfter("none")
  /\ pausedBy' = PausedAfter("none")
  /\ scn' = Scn("feed")
  /\ exp' = IF episodes' = episodes THEN exp ELSE NoExp

\* The once('data') listener without its clearTimeout(watchdog).
FirstBytesKeepsWatchdog(s) ==
  /\ s = 1 /\ playerRes = 1
  /\ segs[s].alive /\ ~segs[s].gotData
  /\ segs' = [segs EXCEPT ![s].gotData = TRUE]
  /\ startedAtMs' = Epoch
  /\ now' = Epoch
  /\ UNCHANGED <<episodes, episodeIndex, hasStartedPlayback, isPausedDueToEmpty,
                 resumeOffsetMs, ffmpegProc, currentEpisode, playLock, fetching,
                 pendingCalls, loopTimers, playerStatus, playerRes, ticks>>
  /\ UNCHANGED session
  /\ dropped' = DroppedAfter("none")
  /\ pausedBy' = PausedAfter("none")
  /\ scn' = Scn("data")
  /\ exp' = NoExp

\* The first chunk on the child's stdout: the once('data') listener (685-707).
\* The stream delivers it only while the child runs and the player has not
\* destroyed the resource.
FirstBytes(s) ==
  /\ s = 1 /\ playerRes = 1
  /\ segs[s].alive /\ ~segs[s].gotData
  /\ segs' = [segs EXCEPT ![s].gotData = TRUE,        \* 686
                          ![s].wd = FALSE]            \* 687: clearTimeout(watchdog)
  /\ startedAtMs' = Epoch                             \* 688: startedAtMs = Date.now()
  /\ now' = Epoch
  /\ UNCHANGED <<episodes, episodeIndex, hasStartedPlayback, isPausedDueToEmpty,
                 resumeOffsetMs, ffmpegProc, currentEpisode, playLock, fetching,
                 pendingCalls, loopTimers, playerStatus, playerRes, ticks>>
  /\ UNCHANGED session
  /\ dropped' = DroppedAfter("none")
  /\ pausedBy' = PausedAfter("none")
  /\ scn' = Scn("data")
  /\ exp' = NoExp

\* Whether the watchdog of segment s acts when it fires (line 676).
WatchdogActs(s) == ~segs[s].gotData /\ ~isPausedDueToEmpty

\* The segment is the only thing going on and plays the episode at the cursor.
CleanStall(s) ==
  /\ ffmpegProc = s /\ playerRes = s
  /\ Len(episodes) >= 2 /\ currentEpisode = EpisodeAt(episodeIndex, episodes)
  /\ fetching = 0 /\ pendingCalls = 0 /\ loopTimers = 0
  /\ Len(segs) = 1

\* The watchdog timer of segment s fires (lines 675-683).
WatchdogFire(s) ==
  /\ s \in DOMAIN segs
  /\ segs[s].wd
  /\ IF WatchdogActs(s)
     THEN /\ segs' = Tidy(Kill([segs EXCEPT ![s].wd = FALSE]), playerRes)   \* 678
          /\ resumeOffsetMs' = 0                                  \* 679
          /\ episodeIndex' = Advance(episodeIndex, episodes)      \* 680
          /\ loopTimers' = loopTimers + 1                         \* 681
          /\ loopTimers' <= MaxTimers
     ELSE /\ segs' = Tidy([segs EXCEPT ![s].wd = FALSE], playerRes)
          /\ UNCHANGED <<resumeOffsetMs, episodeIndex, loopTimers>>
  /\ UNCHANGED <<episodes, hasStartedPlayback, isPausedDueToEmpty, startedAtMs, ffmpegProc,
                 currentEpisode, playLock, fetching, pendingCalls, playerStatus,
                 playerRes, now, ticks>>
  /\ UNCHANGED session
  /\ dropped' = DroppedAfter("none")
  /\ pausedBy' = PausedAfter("none")
  /\ scn' = Scn("watchdog")
  /\ exp' = IF WatchdogActs(s) /\ CleanStall(s)
            THEN [why |-> "watchdog", ep |-> EpisodeAt(episodeIndex + 1, episodes)]
            ELSE NoExp

\* A setTimeout(loopPlay, ...) timer fires: loopPlay() (lines 723-726).
LoopPlayFire ==
  /\ loopTimers > 0
  /\ LoopPlay(hasStartedPlayback, resumeOffsetMs, loopTimers - 1)
  /\ loopTimers' <= MaxTimers
  /\ UNCHANGED <<episodes, hasStartedPlayback, isPausedDueToEmpty, startedAtMs, ffmpegProc,
                 pendingCalls, segs, playerStatus, playerRes, now, ticks>>
  /\ UNCHANGED session
  /\ dropped' = DroppedAfter(LoopResult(hasStartedPlayback))
  /\ pausedBy' = PausedAfter("none")
  /\ scn' = Scn("loopPlay")
  /\ KeepExpOf({"watchdog", "ended"})

\* The child of segment s exits by itself: the episode is over, ffmpeg failed,
\* or its output pipe was closed under it.
ProcExit(s) ==
  /\ s \in DOMAIN segs
  /\ segs[s].alive
  /\ segs' = Tidy([segs EXCEPT ![s].alive = FALSE], playerRes)
  /\ UNCHANGED <<prog, fetching, pendingCalls, loopTimers, playerStatus, playerRes, now, ticks>>
  /\ UNCHANGED session
  /\ dropped' = DroppedAfter("none")
  /\ pausedBy' = PausedAfter("none")
  /\ scn' = Scn("exit")
  /\ KeepExpOf({"watchdog"})

\* The resource became readable: Buffering -> Playing.
PlayerReadable ==
  /\ playerStatus = "buffering" /\ playerRes = 1 /\ segs[1].gotData
  /\ playerStatus' = "playing"
  /\ UNCHANGED <<prog, fetching, pendingCalls, loopTimers, segs, playerRes, now, ticks>>
  /\ UNCHANGED session
  /\ dropped' = DroppedAfter("none")
  /\ pausedBy' = PausedAfter("none")
  /\ scn' = Scn("readable")
  /\ exp' = NoExp

\* The segment that played, not paused, is over by itself and nothing else is
\* going on.
NaturalEnd == playerStatus = "playing" /\ ~isPausedDueToEmpty /\ CleanStall(1)

\* The resource's stream ended (its child is gone): the player, Buffering,
\* Playing or Paused, becomes Idle and the Idle listener runs (lines 728-734).
PlayerStreamEnd ==
  /\ playerStatus \in {"buffering", "playing", "paused"} /\ playerRes = 1 /\ ~segs[1].alive
  /\ playerStatus' = "idle"
  /\ playerRes' = 0
  /\ segs' = Tidy(segs, 0)
  /\ resumeOffsetMs' = OnIdle(Here).off
  /\ episodeIndex' = OnIdle(Here).idx
  /\ loopTimers' = OnIdle(Here).timers
  /\ loopTimers' <= MaxTimers
  /\ UNCHANGED <<episodes, hasStartedPlayback, isPausedDueToEmpty, startedAtMs, ffmpegProc,
                 currentEpisode, playLock, fetching, pendingCalls,
                 now, ticks>>
  /\ UNCHANGED session
  /\ dropped' = DroppedAfter("none")
  /\ pausedBy' = PausedAfter("none")
  /\ scn' = Scn("idle")
  /\ exp' = IF exp.why = "watchdog" THEN exp
            ELSE IF NaturalEnd
            THEN [why |-> "ended", ep |-> EpisodeAt(episodeIndex + 1, episodes)]
            ELSE NoExp

\* The resource's stream failed: the player emits 'error' (lines 736-743) and
\* then becomes Idle (lines 728-734), in one callback.
PlayerStreamError ==
  /\ playerStatus \in {"buffering", "playing"} /\ playerRes = 1
  /\ playerStatus' = "idle"
  /\ playerRes' = 0
  /\ segs' = Tidy(segs, 0)
  /\ resumeOffsetMs' = OnIdle(OnError(Here)).off
  /\ episodeIndex' = OnIdle(OnError(Here)).idx
  /\ loopTimers' = OnIdle(OnError(Here)).timers
  /\ loopTimers' <= MaxTimers
  /\ UNCHANGED <<episodes, hasStartedPlayback, isPausedDueToEmpty, startedAtMs, ffmpegProc,
                 currentEpisode, playLock, fetching, pendingCalls,
                 now, ticks>>
  /\ UNCHANGED session
  /\ dropped' = DroppedAfter("none")
  /\ pausedBy' = PausedAfter("none")
  /\ scn' = Scn("error")
  /\ exp' = NoExp

\* ------------------------------------------------------ the presence gate
\* resumeOffsetMs >= RESUME_RESTART_THRESHOLD_MS (line 821)
OverThreshold(off) == off >= RESUME_RESTART_THRESHOLD_MS

\* A resume that always restarts from the beginning.
ResumeOffsetZero(off) == 0

\* The offset a resume starts from (lines 828-837, 840-847).
ResumeOffset(off) == IF OverThreshold(off) THEN 0 ELSE off

\* The pause that kills the child but keeps its handle.
PauseNowKeepsHandle ==
  /\ resumeOffsetMs' = resumeOffsetMs + Elapsed(now, startedAtMs)
  /\ isPausedDueToEmpty' = TRUE
  /\ playerStatus' = "paused"
  /\ segs' = Tidy(Kill(segs), playerRes)
  /\ ffmpegProc' = ffmpegProc

\* The pause with the offset overwritten by the elapsed time, not accumulated.
PauseNowOverwrites ==
  /\ resumeOffsetMs' = Elapsed(now, startedAtMs)
  /\ isPausedDueToEmpty' = TRUE
  /\ playerStatus' = "paused"
  /\ segs' = Tidy(Kill(segs), playerRes)
  /\ ffmpegProc' = 0

\* The pause of lines 802-807 (and 902-907): accumulate, flag, pause, kill, clear.
PauseNow ==
  /\ resumeOffsetMs' = resumeOffsetMs + Elapsed(now, startedAtMs)   \* 802-803
  /\ isPausedDueToEmpty' = TRUE                                      \* 804
  /\ playerStatus' = "paused"                                        \* 805
  /\ segs' = Tidy(Kill(segs), playerRes)                             \* 806
  /\ ffmpegProc' = 0                                                 \* 807

\* Which branch of the voiceStateUpdate listener runs for n non-bot members.
VoiceBranch(n) ==
  IF n = 0 THEN (IF playerStatus = "playing" THEN "pause" ELSE "none")
  ELSE IF ~hasStartedPlayback THEN "first"
  ELSE IF isPausedDueToEmpty THEN "resume"
  ELSE IF playerStatus = "paused" THEN "unpause"
  ELSE "none"

\* What the call of playCurrent() in the voiceStateUpdate listener did.
VoiceCall(n) ==
  CASE VoiceBranch(n) = "first" -> LoopResult(TRUE)
    [] VoiceBranch(n) \in {"resume", "unpause"} -> CallResult
    [] OTHER -> "none"

\* The listener that goes back to waiting for a first listener when it pauses.
VoiceStateUpdateRearms(n) ==
  /\ CASE VoiceBranch(n) = "pause" ->
            /\ PauseNow
            /\ hasStartedPlayback' = FALSE
            /\ UNCHANGED <<episodeIndex, currentEpisode, playLock, fetching, loopTimers>>
       [] VoiceBranch(n) = "first" ->
            /\ hasStartedPlayback' = TRUE
            /\ LoopPlay(TRUE, resumeOffsetMs, loopTimers)
            /\ UNCHANGED <<isPausedDueToEmpty, playerStatus, segs, ffmpegProc>>
       [] VoiceBranch(n) = "resume" ->
            /\ isPausedDueToEmpty' = FALSE
            /\ PlayCurrentCall(ResumeOffset(resumeOffsetMs), loopTimers)
            /\ UNCHANGED <<hasStartedPlayback, playerStatus, segs, ffmpegProc>>
       [] VoiceBranch(n) = "unpause" ->
            /\ PlayCurrentCall(ResumeOffset(resumeOffsetMs), loopTimers)
            /\ UNCHANGED <<hasStartedPlayback, isPausedDueToEmpty, playerStatus, segs,
                           ffmpegProc>>
       [] OTHER ->
            UNCHANGED <<hasStartedPlayback, isPausedDueToEmpty, playerStatus, segs,
                        ffmpegProc, resumeOffsetMs, episodeIndex, currentEpisode, playLock,
                        fetching, loopTimers>>
  /\ loopTimers' <= MaxTimers
  /\ UNCHANGED <<episodes, startedAtMs, pendingCalls, playerRes, now, ticks>>
  /\ UNCHANGED session
  /\ dropped' = DroppedAfter(VoiceCall(n))
  /\ pausedBy' = PausedAfter(IF VoiceBranch(n) = "pause" THEN "empty" ELSE "none")
  /\ scn' = Scn(IF n = 0 THEN "leave" ELSE "join")
  /\ exp' = NoExp

\* client.on('voiceStateUpdate') for the target channel, which then holds n
\* non-bot members (lines 794-849).
VoiceStateUpdate(n) ==
  /\ CASE VoiceBranch(n) = "pause" ->                                \* 800-811
            /\ PauseNow
            /\ UNCHANGED <<hasStartedPlayback, episodeIndex, currentEpisode, playLock,
                           fetching, loopTimers>>
       [] VoiceBranch(n) = "first" ->                                \* 813-819
            /\ hasStartedPlayback' = TRUE
            /\ LoopPlay(TRUE, resumeOffsetMs, loopTimers)
            /\ UNCHANGED <<isPausedDueToEmpty, playerStatus, segs, ffmpegProc>>
       [] VoiceBranch(n) = "resume" ->                               \* 823-837
            /\ isPausedDueToEmpty' = FALSE
            /\ PlayCurrentCall(ResumeOffset(resumeOffsetMs), loopTimers)
            /\ UNCHANGED <<hasStartedPlayback, playerStatus, segs, ffmpegProc>>
       [] VoiceBranch(n) = "unpause" ->                              \* 838-848
            /\ PlayCurrentCall(ResumeOffset(resumeOffsetMs), loopTimers)
            /\ UNCHANGED <<hasStartedPlayback, isPausedDueToEmpty, playerStatus, segs,
                           ffmpegProc>>
       [] OTHER ->
            UNCHANGED <<hasStartedPlayback, isPausedDueToEmpty, playerStatus, segs,
                        ffmpegProc, resumeOffsetMs, episodeIndex, currentEpisode, playLock,
                        fetching, loopTimers>>
  /\ loopTimers' <= MaxTimers
  /\ UNCHANGED <<episodes, startedAtMs, pendingCalls, playerRes, now, ticks>>
  /\ UNCHANGED session
  /\ dropped' = DroppedAfter(VoiceCall(n))
  /\ pausedBy' = PausedAfter(IF VoiceBranch(n) = "pause" THEN "empty" ELSE "none")
  /\ scn' = Scn(IF n = 0 THEN "leave" ELSE "join")
  /\ exp' = NoExp

\* ---------------------------------------------------- the control handlers
\* The content of the reply with which a control handler returns at once
\* (lines 884, 892, 900, 914), "" when it goes on.
Refusal(op) ==
  CASE op = "skip" /\ Len(episodes) = 0 -> "No episodes loaded."
    [] op = "restart" /\ currentEpisode \in {NoEpisode, Undefined} -> "Nothing to restart."
    [] op = "pause" /\ playerStatus # "playing" -> "Already paused or not playing."
    [] op = "resume" /\ playerStatus = "playing" /\ ~isPausedDueToEmpty -> "Already playing."
    [] OTHER -> ""

\* A skip while the first start, on the episode at the cursor, is in flight.
SkipInFlight ==
  /\ fetching = 1 /\ Len(episodes) > 0 /\ pendingCalls = 0 /\ loopTimers = 0
  /\ currentEpisode = EpisodeAt(episodeIndex, episodes)
  /\ segs = <<NoSeg>>

\* handleSkip without its check of episodes.length.
HandleSkipUnguarded ==
  /\ resumeOffsetMs' = 0
  /\ episodeIndex' = Advance(episodeIndex, episodes)
  /\ pendingCalls' = pendingCalls + 1
  /\ pendingCalls' <= MaxPending
  /\ UNCHANGED <<episodes, hasStartedPlayback, isPausedDueToEmpty, startedAtMs, ffmpegProc,
                 currentEpisode, playLock, fetching, loopTimers, segs, playerStatus,
                 playerRes, now, ticks>>
  /\ UNCHANGED session
  /\ dropped' = DroppedAfter("none")
  /\ pausedBy' = PausedAfter("control")
  /\ scn' = Scn("skip")
  /\ exp' = IF playerStatus = "playing" /\ CleanStall(1)
            THEN [why |-> "skip", ep |-> EpisodeAt(episodeIndex + 1, episodes)]
            ELSE IF SkipInFlight
            THEN [why |-> "inflight", ep |-> EpisodeAt(episodeIndex + 1, episodes)]
            ELSE NoExp

\* handleSkip without its reset of resumeOffsetMs.
HandleSkipKeepsOffset ==
  /\ IF Len(episodes) = 0
     THEN UNCHANGED <<resumeOffsetMs, episodeIndex, pendingCalls>>
     ELSE /\ UNCHANGED resumeOffsetMs
          /\ episodeIndex' = Advance(episodeIndex, episodes)
          /\ pendingCalls' = pendingCalls + 1
          /\ pendingCalls' <= MaxPending
  /\ UNCHANGED <<episodes, hasStartedPlayback, isPausedDueToEmpty, startedAtMs, ffmpegProc,
                 currentEpisode, playLock, fetching, loopTimers, segs, playerStatus,
                 playerRes, now, ticks>>
  /\ UNCHANGED session
  /\ dropped' = DroppedAfter("none")
  /\ pausedBy' = PausedAfter("control")
  /\ scn' = Scn("skip")
  /\ exp' = IF playerStatus = "playing" /\ CleanStall(1)
            THEN [why |-> "skip", ep |-> EpisodeAt(episodeIndex + 1, episodes)]
            ELSE IF SkipInFlight
            THEN [why |-> "inflight", ep |-> EpisodeAt(episodeIndex + 1, episodes)]
            ELSE NoExp

\* handleSkip up to "await interaction.reply" (lines 883-887; button 966-970).
HandleSkip ==
  /\ IF Len(episodes) = 0                                           \* 884
     THEN UNCHANGED <<resumeOffsetMs, episodeIndex, pendingCalls>>
     ELSE /\ resumeOffsetMs' = 0                                    \* 885
          /\ episodeIndex' = Advance(episodeIndex, episodes)        \* 886
          /\ pendingCalls' = pendingCalls + 1                       \* 887
          /\ pendingCalls' <= MaxPending
  /\ UNCHANGED <<episodes, hasStartedPlayback, isPausedDueToEmpty, startedAtMs, ffmpegProc,
                 currentEpisode, playLock, fetching, loopTimers, segs, playerStatus,
                 playerRes, now, ticks>>
  /\ UNCHANGED session
  /\ dropped' = DroppedAfter("none")
  /\ pausedBy' = PausedAfter("control")
  /\ scn' = Scn("skip")
  /\ exp' = IF playerStatus = "playing" /\ CleanStall(1)
            THEN [why |-> "skip", ep |-> EpisodeAt(episodeIndex + 1, episodes)]
            ELSE IF SkipInFlight
            THEN [why |-> "inflight", ep |-> EpisodeAt(episodeIndex + 1, episodes)]
            ELSE NoExp

\* handleRestart up to "await interaction.reply" (lines 891-894; button 974-977).
HandleRestart ==
  /\ IF currentEpisode \in {NoEpisode, Undefined}                   \* 892
     THEN UNCHANGED <<resumeOffsetMs, pendingCalls>>
     ELSE /\ resumeOffsetMs' = 0                                    \* 893
          /\ pendingCalls' = pendingCalls + 1                       \* 894
          /\ pendingCalls' <= MaxPending
  /\ UNCHANGED <<episodes, episodeIndex, hasStartedPlayback, isPausedDueToEmpty, startedAtMs,
                 ffmpegProc, currentEpisode, playLock, fetching, loopTimers, segs,
                 playerStatus, playerRes, now, ticks>>
  /\ UNCHANGED session
  /\ dropped' = DroppedAfter("none")
  /\ pausedBy' = PausedAfter("control")
  /\ scn' = Scn("restart")
  /\ exp' = IF currentEpisode \notin {NoEpisode, Undefined}
               /\ fetching = 0 /\ loopTimers = 0
            THEN [why |-> "restart", ep |-> currentEpisode]
            ELSE NoExp

\* handlePause (lines 898-910; button 946-957).
HandlePause ==
  /\ IF playerStatus # "playing"                                    \* 899
     THEN UNCHANGED <<resumeOffsetMs, isPausedDueToEmpty, playerStatus, segs, ffmpegProc>>
     ELSE PauseNow                                                  \* 902-907
  /\ UNCHANGED <<episodes, episodeIndex, hasStartedPlayback, startedAtMs, currentEpisode,
                 playLock, fetching, pendingCalls, loopTimers, playerRes,
                 now, ticks>>
  /\ UNCHANGED session
  /\ dropped' = DroppedAfter("none")
  /\ pausedBy' = PausedAfter(IF playerStatus = "playing" THEN "manual" ELSE "none")
  /\ scn' = Scn("pause")
  /\ exp' = NoExp

\* handleResume without its check of the player (line 913).
HandleResumeUnchecked ==
  /\ isPausedDueToEmpty' = FALSE
  /\ pendingCalls' = pendingCalls + 1
  /\ pendingCalls' <= MaxPending
  /\ UNCHANGED <<episodes, episodeIndex, hasStartedPlayback, resumeOffsetMs, startedAtMs,
                 ffmpegProc, currentEpisode, playLock, fetching, loopTimers, segs,
                 playerStatus, playerRes, now, ticks>>
  /\ UNCHANGED session
  /\ dropped' = DroppedAfter("none")
  /\ pausedBy' = PausedAfter("none")
  /\ scn' = Scn("resume")
  /\ exp' = NoExp

\* handleResume up to "await interaction.reply" (lines 912-917; button 958-961).
HandleResume ==
  /\ IF playerStatus = "playing" /\ ~isPausedDueToEmpty             \* 913
     THEN UNCHANGED <<isPausedDueToEmpty, pendingCalls>>
     ELSE /\ isPausedDueToEmpty' = FALSE                            \* 916
          /\ pendingCalls' = pendingCalls + 1                       \* 917
          /\ pendingCalls' <= MaxPending
  /\ UNCHANGED <<episodes, episodeIndex, hasStartedPlayback, resumeOffsetMs, startedAtMs,
                 ffmpegProc, currentEpisode, playLock, fetching, loopTimers, segs,
                 playerStatus, playerRes, now, ticks>>
  /\ UNCHANGED session
  /\ dropped' = DroppedAfter("none")
  /\ pausedBy' = PausedAfter("none")
  /\ scn' = Scn("resume")
  /\ exp' = NoExp

\* "await interaction.reply" resolved in a skip, restart or resume handler: the
\* handler calls playCurrent() (lines 888, 895, 918).
ReplyDone ==
  /\ pendingCalls > 0
  /\ pendingCalls' = pendingCalls - 1
  /\ PlayCurrentCall(resumeOffsetMs, loopTimers)
  /\ loopTimers' <= MaxTimers
  /\ UNCHANGED <<episodes, hasStartedPlayback, isPausedDueToEmpty, startedAtMs, ffmpegProc,
                 segs, playerStatus, playerRes, now, ticks>>
  /\ UNCHANGED session
  /\ dropped' = DroppedAfter(CallResult)
  /\ pausedBy' = PausedAfter("none")
  /\ scn' = Scn("reply")
  /\ KeepExpOf({"skip", "restart", "inflight"})

\* "await interaction.reply" rejected: the handler ends without playCurrent().
ReplyFailed ==
  /\ pendingCalls > 0
  /\ pendingCalls' = pendingCalls - 1
  /\ UNCHANGED <<prog, fetching, loopTimers, segs, playerStatus, playerRes,
                 now, ticks>>
  /\ UNCHANGED session
  /\ dropped' = DroppedAfter("none")
  /\ pausedBy' = PausedAfter("none")
  /\ scn' = Scn("noreply")
  /\ exp' = NoExp

\* --------------------------------------------------- the voice session
\* The connection lost its transport: the Disconnected listener starts its
\* race of two entersState promises (lines 772-778).
Disconnected ==
  /\ ~exited
  /\ connection = 1 /\ connStatus \in {"ready", "signalling"}
  /\ graceWaits < MaxSession
  /\ connStatus' = "disconnected"
  /\ graceWaits' = graceWaits + 1
  /\ UNCHANGED <<prog, rt, hist, connection, subscribed, keepAliveInterval, refreshInterval,
                 rejoinTimers, joining, exited, shutLog>>

\* The connection recovers in place within the grace window: it enters
\* Signalling, the races resolve and the listeners end (lines 775-778).
RecoveredInPlace ==
  /\ ~exited
  /\ connection = 1 /\ connStatus = "disconnected"
  /\ connStatus' = "signalling"
  /\ graceWaits' = 0
  /\ UNCHANGED <<prog, rt, hist, connection, subscribed, keepAliveInterval, refreshInterval,
                 rejoinTimers, joining, exited, shutLog>>

\* The connection completes its handshake.
ConnReady ==
  /\ ~exited
  /\ connection = 1 /\ connStatus = "signalling"
  /\ connStatus' = "ready"
  /\ UNCHANGED <<prog, rt, hist, connection, subscribed, keepAliveInterval, refreshInterval,
                 graceWaits, rejoinTimers, joining, exited, shutLog>>

\* The race of a Disconnected listener rejects after the grace window: the
\* listener arms the tear-down timer (lines 779-785).
GraceExpired ==
  /\ ~exited
  /\ graceWaits > 0
  /\ rejoinTimers < MaxSession
  /\ graceWaits' = graceWaits - 1
  /\ rejoinTimers' = rejoinTimers + 1
  /\ UNCHANGED <<prog, rt, hist, connection, connStatus, subscribed, keepAliveInterval,
                 refreshInterval, joining, exited, shutLog>>

\* The tear-down timer fires (lines 780-784): destroy the connection, clear the
\* variable, call ensureConnection(), which suspends at its fetch (line 761).
\* The keep-alive interval is not cleared: it stays armed on the destroyed
\* connection.
RejoinFire ==
  /\ ~exited
  /\ rejoinTimers > 0
  /\ joining < MaxSession
  /\ rejoinTimers' = rejoinTimers - 1
  /\ connection' = 0                                                \* 781-782
  /\ connStatus' = IF connection = 1 THEN "destroyed" ELSE connStatus
  /\ subscribed' = (subscribed /\ connection = 0)
  /\ keepAliveInterval' = IF keepAliveInterval = 1 /\ connection = 1 THEN 2
                          ELSE keepAliveInterval
  /\ joining' = joining + 1                                         \* 783, 761
  /\ UNCHANGED <<prog, rt, hist, refreshInterval, graceWaits, exited, shutLog>>

\* "await client.channels.fetch" gave the voice channel (lines 762-790): with no
\* connection, join, subscribe the player and arm the keep-alive (which clears
\* the previous interval, line 750); with a connection, nothing.
EnsureConnectionFetched ==
  /\ ~exited
  /\ joining > 0
  /\ joining' = joining - 1
  /\ IF connection = 0
     THEN /\ connection' = 1                                        \* 765
          /\ connStatus' = "signalling"
          /\ subscribed' = TRUE                                     \* 788
          /\ keepAliveInterval' = 1                                 \* 789
     ELSE UNCHANGED <<connection, connStatus, subscribed, keepAliveInterval>>
  /\ UNCHANGED <<prog, rt, hist, refreshInterval, graceWaits, rejoinTimers, exited, shutLog>>

\* The fetch gave no voice channel: ensureConnection throws (line 762) and the
\* caller in the tear-down timer swallows the rejection (line 783).
EnsureConnectionFailed ==
  /\ ~exited
  /\ joining > 0
  /\ joining' = joining - 1
  /\ UNCHANGED <<prog, rt, hist, connection, connStatus, subscribed, keepAliveInterval,
                 refreshInterval, graceWaits, rejoinTimers, exited, shutLog>>

\* The SIGTERM listener (lines 1053-1058); killThrows and destroyThrows say
\* whether the kill and the destroy throw, each inside its own try.
Sigterm(killThrows, destroyThrows) ==
  /\ ~exited
  /\ keepAliveInterval' = 0                                         \* 1054, 755-758
  /\ segs' = IF killThrows THEN segs ELSE Tidy(Kill(segs), playerRes)   \* 1055
  /\ connStatus' = IF connection = 1 /\ ~destroyThrows THEN "destroyed" ELSE connStatus
  /\ subscribed' = (subscribed /\ (connection = 0 \/ destroyThrows))   \* 1056
  /\ exited' = TRUE                                                 \* 1057
  /\ shutLog' = <<"stopKeepAlive", "kill", "destroy", "exit">>
  /\ UNCHANGED <<prog, fetching, pendingCalls, loopTimers, playerStatus, playerRes, now,
                 ticks, hist, connection, refreshInterval, graceWaits, rejoinTimers, joining>>

\* The session once main() has run (lines 1046-1049): the refresh interval is
\* armed, the connection is made, the player subscribed, the keep-alive armed.
Booted ==
  /\ connection = 1
  /\ connStatus = "ready"
  /\ subscribed = TRUE
  /\ keepAliveInterval = 1
  /\ refreshInterval = TRUE
  /\ graceWaits = 0
  /\ rejoinTimers = 0
  /\ joining = 0
  /\ exited = FALSE
  /\ shutLog = <<>>

Init ==
  /\ episodes = <<>>
  /\ episodeIndex = 0
  /\ hasStartedPlayback = FALSE
  /\ isPausedDueToEmpty = FALSE
  /\ resumeOffsetMs = 0
  /\ startedAtMs = 0
  /\ ffmpegProc = 0
  /\ currentEpisode = NoEpisode
  /\ playLock = FALSE
  /\ fetching = 0
  /\ pendingCalls = 0
  /\ loopTimers = 0
  /\ segs = <<NoSeg>>
  /\ playerStatus = "idle"
  /\ playerRes = 0
  /\ now = Epoch
  /\ ticks = 0
  /\ dropped = FALSE
  /\ pausedBy = NotPaused
  /\ scn = ScnBoot
  /\ exp = NoExp
  /\ Booted
\* The clock.
Clock ==
  \/ \E d \in TickSteps : Tick(d)
  \/ \E d \in AwaySteps : Away(d)

\* The callbacks of playback: the feed, membership, starts, timers, the child,
\* the player, the controls.
Playback ==
  \/ \E items \in Feeds \cup {<<>>} : FetchEpisodes(items)
  \/ \E n \in 0..MaxHumans : VoiceStateUpdate(n)
  \/ PlayCurrentFetched
  \/ PlayCurrentFailed
  \/ \E s \in SegIds : FirstBytes(s)
  \/ \E s \in SegIds : WatchdogFire(s)
  \/ LoopPlayFire
  \/ \E s \in SegIds : ProcExit(s)
  \/ PlayerReadable
  \/ PlayerStreamEnd
  \/ PlayerStreamError
  \/ HandleSkip
  \/ HandleRestart
  \/ HandlePause
  \/ HandleResume
  \/ ReplyDone
  \/ ReplyFailed

Next == Clock \/ Playback

Spec == Init /\ [][Next]_vars

\* The supervision of the voice session, by itself.
Supervision ==
  \/ Disconnected
  \/ RecoveredInPlace
  \/ ConnReady
  \/ GraceExpired
  \/ RejoinFire
  \/ EnsureConnectionFetched
  \/ EnsureConnectionFailed

SpecSession == Init /\ [][Supervision]_vars

\* Playback until the process receives SIGTERM.
Shutdown ==
  \/ ~exited /\ Playback
  \/ \E killThrows, destroyThrows \in BOOLEAN : Sigterm(killThrows, destroyThrows)

SpecShutdown == Init /\ [][Shutdown]_vars

\* ------------------------------------------------- the cursor arithmetic
\* The cursor on any episode of any collection, the collection never replaced;
\* currentEpisode is the episode under the cursor at the outset and loopTimers
\* counts the advances, each of which arms one retry (line 732).
InitCursor ==
  /\ episodes \in Queues
  /\ episodeIndex \in 0..(Len(episodes) - 1)
  /\ currentEpisode = EpisodeAt(episodeIndex, episodes)
  /\ hasStartedPlayback = TRUE
  /\ isPausedDueToEmpty = FALSE
  /\ resumeOffsetMs = 0
  /\ startedAtMs = 0
  /\ ffmpegProc = 0
  /\ playLock = FALSE
  /\ fetching = 0
  /\ pendingCalls = 0
  /\ loopTimers = 0
  /\ segs = <<NoSeg>>
  /\ playerStatus = "idle"
  /\ playerRes = 0
  /\ now = Epoch
  /\ ticks = 0
  /\ dropped = FALSE
  /\ pausedBy = NotPaused
  /\ scn = ScnOff
  /\ exp = NoExp
  /\ Booted

\* One more run of the Idle listener (lines 728-734), up to two turns of the
\* collection.
IdleAdvance ==
  /\ loopTimers < 2 * Len(episodes)
  /\ resumeOffsetMs' = OnIdle(Here).off
  /\ episodeIndex' = OnIdle(Here).idx
  /\ loopTimers' = OnIdle(Here).timers
  /\ UNCHANGED <<episodes, hasStartedPlayback, isPausedDueToEmpty, startedAtMs, ffmpegProc,
                 currentEpisode, playLock, fetching, pendingCalls, segs, playerStatus,
                 playerRes, now, ticks, hist, session>>

SpecCursor == InitCursor /\ [][IdleAdvance]_vars

\* ================================================================ claims
\* The children that run.
Live == {i \in DOMAIN segs : segs[i].alive}

\* A step that kills no child, moves no cursor, resets no offset, arms no retry.
Inert ==
  /\ Cardinality({i \in DOMAIN segs' : segs'[i].alive}) = Cardinality(Live)
  /\ episodeIndex' = episodeIndex
  /\ resumeOffsetMs' = resumeOffsetMs
  /\ loopTimers' = loopTimers

\* C1: in every reachable state at most one ffmpeg child spawned by playCurrent
\* runs: when playCurrent spawns, every earlier child has been killed.
C1_AtMostOneLivePipeline == Cardinality(Live) <= 1

\* C1, reached: a start found the child of the previous segment running.
C1_reached == Len(segs) > 1 /\ segs[1].alive /\ segs[2].alive

\* C2: a watchdog armed for a segment that a later segment has superseded
\* kills no child, moves no cursor, resets no offset and arms no retry when it
\* fires.
C2_StaleWatchdogInert ==
  [][\A s \in SegIds : (s > 1 /\ WatchdogFire(s)) => Inert]_vars

\* C2, reached: a segment was superseded while its watchdog was armed.
C2_reached == Len(segs) > 1 /\ segs[2].wd

\* C3: once a segment has delivered its first bytes its watchdog is disarmed
\* (line 687), and a watchdog that fires for a segment whose gotData is set
\* (line 676) kills no child, moves no cursor, resets no offset and arms no
\* retry.
C3_WatchdogAfterFirstBytes ==
  [][\A s \in SegIds :
       (s \in DOMAIN segs /\ segs[s].gotData)
         => /\ ~segs[s].wd
            /\ WatchdogFire(s) => Inert]_vars

\* C3, reached: the latest segment delivered first bytes and reached Playing.
C3_reached ==
  playerStatus = "playing" /\ playerRes = 1 /\ segs[1].gotData /\ segs[1].alive

\* C4: in the scenario where the first listener joins, the segment on A starts
\* and the channel empties before the segment's first bytes and before its
\* watchdog fires, the pause takes precedence: the watchdog, when it fires,
\* kills no child, moves no cursor, resets no offset and arms no retry.
C4_EmptyChannelBeatsWatchdog ==
  [][(scn.phase = "s1left" /\ WatchdogFire(1)) => Inert]_vars

\* C4, reached: the channel emptied while the segment was starting, its
\* watchdog armed.
C4_reached == scn.phase = "s1left" /\ segs[1].wd /\ ~segs[1].gotData

\* C5: after the watchdog of a segment that never emitted first bytes acted
\* (cursor advanced by one, offset 0), whatever player events follow the kill,
\* the next segment that starts plays the episode after the stalled one, at
\* offset 0.
C5_NextSegmentAfterWatchdog ==
  [][(exp.why = "watchdog" /\ PlayCurrentFetched)
       => (currentEpisode' = exp.ep /\ SeekMs(resumeOffsetMs') = 0)]_vars

\* C5, reached: the watchdog acted on a stalled segment that was the only thing
\* going on, the cursor is on the next episode and the offset is 0.
C5_reached ==
  exp.why = "watchdog" /\ EpisodeAt(episodeIndex, episodes) = exp.ep /\ resumeOffsetMs = 0

\* A step that calls playCurrent(): a retry timer, a skip, restart or resume
\* whose reply is done, a listener join.
StartRequest ==
  LoopPlayFire \/ ReplyDone \/ \E n \in 1..MaxHumans : VoiceStateUpdate(n)

\* C6: while a start is in flight (playLock held), a step that requests a start
\* spawns nothing, begins no fetch, arms no timer, leaves no handler pending,
\* and leaves the lock and the episode of the start in flight alone.
C6_StartDroppedUnderLock ==
  [][(playLock /\ StartRequest)
       => /\ segs' = segs /\ fetching' = fetching
          /\ loopTimers' <= loopTimers /\ pendingCalls' <= pendingCalls
          /\ playLock' /\ currentEpisode' = currentEpisode]_vars

\* C6, reached: a start is in flight and a call of playCurrent() returned at
\* the lock.
C6_reached == dropped /\ playLock /\ fetching = 1

\* C7: when the channel is seen empty while the player is Playing, the new
\* offset is the old offset plus the time since the first bytes, never smaller
\* than the old one; the child is killed and ffmpegProc cleared; the cursor and
\* the current episode stay.
C7_PauseOnEmpty ==
  [][(playerStatus = "playing" /\ VoiceStateUpdate(0))
       => /\ resumeOffsetMs' = resumeOffsetMs + (now - startedAtMs)
          /\ resumeOffsetMs' >= resumeOffsetMs
          /\ ~segs'[1].alive /\ ffmpegProc' = 0
          /\ isPausedDueToEmpty' /\ playerStatus' = "paused"
          /\ episodeIndex' = episodeIndex /\ currentEpisode' = currentEpisode]_vars

\* C7, reached: an empty channel paused a segment that had played 10000 ms
\* from a saved offset of 10000 ms.
C7_reached ==
  pausedBy.cause = "empty" /\ resumeOffsetMs = 20000 /\ now - startedAtMs = 10000

\* A listener join, or an explicit resume, skip or restart.
Release ==
  HandleResume \/ HandleSkip \/ HandleRestart \/ \E n \in 1..MaxHumans : VoiceStateUpdate(n)

\* C8: after an empty-channel pause, until a listener join or an explicit
\* resume, skip or restart, no step clears the paused flag or spawns a child.
C8_StaysPausedUntilReleased ==
  [][(pausedBy.cause = "empty" /\ ~Release)
       => /\ isPausedDueToEmpty'
          /\ Cardinality({i \in DOMAIN segs' : segs'[i].alive}) <= Cardinality(Live)]_vars

\* C8, reached: the empty-channel pause was processed while a start was in
\* flight.
C8_reached == pausedBy.cause = "empty" /\ pausedBy.inFlight /\ fetching > 0

\* C9: in the scenario (queue [A, B], first join) the first segment plays A
\* from 0; the pause after 10000 ms of playback leaves resumeOffsetMs = 10000;
\* after an absence shorter than the threshold the next segment plays A from
\* 10000.
C9_ResumeAfterShortAbsence ==
  /\ scn.phase = "s1spawn" => currentEpisode = "A" /\ SeekMs(resumeOffsetMs) = 0
  /\ (scn.phase = "paused" /\ scn.played = 10000)
       => (isPausedDueToEmpty /\ resumeOffsetMs = 10000 /\ Live = {})
  /\ (scn.phase = "s2spawn" /\ scn.played = 10000
        /\ scn.absence < RESUME_RESTART_THRESHOLD_MS)
       => (scn.ep = "A" /\ scn.off = 10000)

\* C9, reached: the segment after a pause at 10000 ms and an absence of
\* 10000 ms has started.
C9_reached == scn.phase = "s2spawn" /\ scn.played = 10000 /\ scn.absence = 10000

Join == \E n \in 1..MaxHumans : VoiceStateUpdate(n)

\* C11: on a listener join while paused by an empty channel the start offset
\* is 0 if the accumulated resumeOffsetMs is strictly greater than the
\* threshold and the saved resumeOffsetMs otherwise, also when it equals the
\* threshold.
C11_ResetOnlyAboveThreshold ==
  [][(pausedBy.cause = "empty" /\ hasStartedPlayback /\ Join)
       => resumeOffsetMs' = IF resumeOffsetMs > RESUME_RESTART_THRESHOLD_MS
                            THEN 0 ELSE resumeOffsetMs]_vars

\* C11, reached: paused by an empty channel with resumeOffsetMs equal to the
\* threshold.
C11_reached ==
  pausedBy.cause = "empty" /\ resumeOffsetMs = RESUME_RESTART_THRESHOLD_MS

\* C12: a listener join while playback is paused by the pause command or
\* button leaves resumeOffsetMs unchanged, whatever the accumulated offset.
C12_ManualPauseKeepsOffset ==
  [][(pausedBy.cause = "manual" /\ Join) => resumeOffsetMs' = resumeOffsetMs]_vars

\* C12, reached: paused by the pause command with an accumulated offset that
\* is not below the threshold.
C12_reached ==
  pausedBy.cause = "manual" /\ playerStatus = "paused"
    /\ resumeOffsetMs >= RESUME_RESTART_THRESHOLD_MS

\* C13: skip while A plays (at any offset, nothing else under way) sets
\* resumeOffsetMs to 0 and advances the cursor by one, and the segment that the
\* skip then starts plays the episode after A at offset 0.
C13_SkipStartsNext ==
  [][/\ (playerStatus = "playing" /\ Len(episodes) > 0 /\ HandleSkip)
          => /\ resumeOffsetMs' = 0
             /\ episodeIndex' = (episodeIndex + 1) % Len(episodes)
     /\ (exp.why = "skip" /\ PlayCurrentFetched)
          => (currentEpisode' = exp.ep /\ SeekMs(resumeOffsetMs') = 0)]_vars

\* C13, reached: A resumed from a saved offset and played on for 10000 ms, the
\* user skipped, and the start of the next episode is in flight.
C13_reached ==
  exp.why = "skip" /\ fetching = 1 /\ currentEpisode = exp.ep
    /\ playerStatus = "playing" /\ now - startedAtMs = 10000

\* C14: restart with a current episode sets resumeOffsetMs to 0 and leaves the
\* cursor, and (no start in flight, no retry pending) the segment that then
\* starts plays that same episode at offset 0.
C14_RestartSameEpisode ==
  [][/\ (currentEpisode \notin {NoEpisode, Undefined} /\ HandleRestart)
          => (resumeOffsetMs' = 0 /\ episodeIndex' = episodeIndex)
     /\ (exp.why = "restart" /\ PlayCurrentFetched)
          => (currentEpisode' = exp.ep /\ SeekMs(resumeOffsetMs') = 0)]_vars

\* C14, reached: a restart was requested while the cursor is not on the
\* current episode.
C14_reached ==
  exp.why = "restart" /\ pendingCalls = 1 /\ Len(episodes) > 0
    /\ EpisodeAt(episodeIndex, episodes) # exp.ep

\* C15: skip with an empty queue, restart with no current episode, pause while
\* the player is not Playing and resume while playing and not paused reply
\* with a reason and change nothing: offset, cursor, flag, handle, episode,
\* children, pending starts and timers all stay.
C15_InvalidControlChangesNothing ==
  [][/\ (Len(episodes) = 0 /\ HandleSkip)
          => (Refusal("skip") # "" /\ UNCHANGED <<prog, rt>>)
     /\ (currentEpisode \in {NoEpisode, Undefined} /\ HandleRestart)
          => (Refusal("restart") # "" /\ UNCHANGED <<prog, rt>>)
     /\ (playerStatus # "playing" /\ HandlePause)
          => (Refusal("pause") # "" /\ UNCHANGED <<prog, rt>>)
     /\ (playerStatus = "playing" /\ ~isPausedDueToEmpty /\ HandleResume)
          => (Refusal("resume") # "" /\ UNCHANGED <<prog, rt>>)]_vars

\* C15, reached: a segment plays, not paused, with an offset saved earlier: a
\* resume is invalid here.
C15_reached ==
  playerStatus = "playing" /\ ~isPausedDueToEmpty /\ resumeOffsetMs > 0
    /\ ffmpegProc = 1 /\ pendingCalls = 0

\* C16: while no listener has ever joined (hasStartedPlayback false) no start
\* is under way, no child was spawned and the player has no resource.
C16_NothingBeforeFirstListener ==
  ~hasStartedPlayback
    => (fetching = 0 /\ ffmpegProc = 0 /\ playerRes = 0 /\ Live = {}
        /\ playerStatus = "idle")

\* C16, reached: a child runs and the player buffers its output although no
\* listener has ever joined.
C16_reached ==
  ~hasStartedPlayback /\ ffmpegProc = 1 /\ segs[1].alive /\ playerStatus = "buffering"

\* C17: hasStartedPlayback becomes true in a membership event with a non-zero
\* non-bot count, in no other step, and no step makes it false again.
C17_StartedIsMonotone ==
  [][/\ hasStartedPlayback => hasStartedPlayback'
     /\ Join => hasStartedPlayback'
     /\ (~hasStartedPlayback /\ hasStartedPlayback') => Join]_vars

\* C17, reached: after the first join the channel emptied and playback paused.
C17_reached ==
  hasStartedPlayback /\ pausedBy.cause = "empty" /\ playerStatus = "paused"

\* C18: for a collection of n distinct episodes that is not replaced, the
\* cursor is back on its starting episode after n advances (and after 2n), and
\* after fewer than n advances it is on another episode.
C18_AdvanceCycles ==
  /\ loopTimers \in {Len(episodes), 2 * Len(episodes)}
       => EpisodeAt(episodeIndex, episodes) = currentEpisode
  /\ (0 < loopTimers /\ loopTimers < Len(episodes))
       => EpisodeAt(episodeIndex, episodes) # currentEpisode

\* C18, reached: a collection of four episodes, the cursor started on the
\* third and advanced four times.
C18_reached ==
  Len(episodes) = 4 /\ currentEpisode = "C" /\ loopTimers = 4 /\ episodeIndex = 2

\* C19: a refresh that yields no items (or throws) leaves the collection and
\* the cursor as they are, and a collection that is non-empty is non-empty
\* after every step.
C19_EmptyRefreshIgnored ==
  [][/\ FetchEpisodes(<<>>) => (episodes' = episodes /\ episodeIndex' = episodeIndex)
     /\ Len(episodes) > 0 => Len(episodes') > 0]_vars

\* C19, reached: a segment of the scenario plays, so that a refresh (which
\* ends the scenario whatever it yields) is a step that is seen.
C19_reached == Len(episodes) = 2 /\ scn.phase = "s1play" /\ episodeIndex = 0

\* C20: resumeOffsetMs is greater than or equal to 0 in every reachable state.
C20_OffsetNotNegative == resumeOffsetMs >= 0

\* C20, reached: playback is paused and the pauses have accumulated 310000 ms
\* over two advances of the clock.
C20_reached ==
  resumeOffsetMs = 310000 /\ playerStatus = "paused" /\ ticks = 2

\* The position that nowplaying shows (lines 857-860).
Position ==
  IF isPausedDueToEmpty THEN resumeOffsetMs
  ELSE resumeOffsetMs + (IF playerStatus = "playing" THEN Elapsed(now, startedAtMs) ELSE 0)

\* C21: while the player is Playing, the computed position resumeOffsetMs +
\* (now - startedAtMs) does not decrease from one state to the next within the
\* same segment, and the segment that plays is the one whose first bytes set
\* startedAtMs.
C21_PositionMonotone ==
  [][(playerStatus = "playing" /\ playerStatus' = "playing" /\ ~isPausedDueToEmpty')
       => /\ Position' >= Position
          /\ Position' = resumeOffsetMs' + (now' - startedAtMs')
          /\ playerRes' = 1 /\ segs'[1].gotData /\ startedAtMs' = Epoch]_vars

\* C21, reached: a segment that resumed from a saved offset is Playing and has
\* played on, so that the position is above the time since its first bytes.
C21_reached ==
  playerStatus = "playing" /\ ~isPausedDueToEmpty /\ resumeOffsetMs > 0
    /\ now > startedAtMs /\ Position > now - startedAtMs

\* C22: when the stream of a segment ends by itself while playback is not
\* paused, resumeOffsetMs becomes 0, the cursor advances by one and one retry
\* is armed; the retry, when it fires, begins a start; and the segment that
\* then starts plays the next episode at offset 0.
C22_NextAfterNaturalEnd ==
  [][/\ (~isPausedDueToEmpty /\ Len(episodes) > 0 /\ PlayerStreamEnd)
          => /\ resumeOffsetMs' = 0
             /\ episodeIndex' = (episodeIndex + 1) % Len(episodes)
             /\ loopTimers' = loopTimers + 1
     /\ (exp.why = "ended" /\ LoopPlayFire) => fetching' = fetching + 1
     /\ (exp.why = "ended" /\ PlayCurrentFetched)
          => (currentEpisode' = exp.ep /\ SeekMs(resumeOffsetMs') = 0)]_vars

\* C22, reached: a segment that was started by a control operation, no
\* listener having joined, played to its end: the retry is armed.
C22_reached == exp.why = "ended" /\ loopTimers = 1 /\ ~hasStartedPlayback

\* C23: when a start fails inside playCurrent (the fetch rejects or the spawn
\* throws), resumeOffsetMs becomes 0, the cursor advances by one, one retry is
\* armed and playLock is released, so that the retry is not dropped at the
\* lock this start held.
C23_StartFailureRetries ==
  [][PlayCurrentFailed
       => /\ resumeOffsetMs' = 0
          /\ episodeIndex' = (episodeIndex + 1) % Len(episodes)
          /\ loopTimers' = loopTimers + 1
          /\ ~playLock' /\ fetching' = 0]_vars

\* C23, reached: the first start, on A, failed before anything was spawned:
\* the cursor is on B, the retry is armed, the lock is free.
C23_reached ==
  currentEpisode = "A" /\ episodeIndex = 1 /\ loopTimers = 1 /\ resumeOffsetMs = 0
    /\ ~playLock /\ fetching = 0 /\ ffmpegProc = 0 /\ segs = <<NoSeg>>

\* The timers that are armed: the keep-alive, the watchdogs, the retries, the
\* feed refresh, the tear-downs.
ArmedTimers ==
  (IF keepAliveInterval # 0 THEN 1 ELSE 0) + Cardinality({i \in DOMAIN segs : segs[i].wd})
    + loopTimers + (IF refreshInterval THEN 1 ELSE 0) + rejoinTimers

\* C24: the SIGTERM listener, before the process exits, cancels every armed
\* timer (keep-alive, watchdog, retry, feed refresh), then kills the children
\* that run, then closes the voice session, in that order; a step that throws
\* does not prevent the steps after it.
C24_ShutdownInOrder ==
  [][\A killThrows, destroyThrows \in BOOLEAN :
       Sigterm(killThrows, destroyThrows)
         => /\ shutLog' = <<"stopKeepAlive", "kill", "destroy", "exit">>
            /\ exited'
            /\ ArmedTimers' = 0
            /\ ~killThrows => \A i \in DOMAIN segs' : ~segs'[i].alive
            /\ (~destroyThrows /\ connection = 1) => connStatus' = "destroyed"]_vars

\* C24, reached: the process exited on SIGTERM while a retry timer was armed.
C24_reached == exited /\ loopTimers > 0 /\ shutLog # <<>>

\* C25: the supervisor holds a session with the player subscribed and the
\* keep-alive running on it, and whenever it holds none (after a tear-down,
\* also after a rejoin attempt that failed) a rejoin is under way: a grace
\* window or a tear-down timer is pending or ensureConnection is in flight.
C25_SessionRestored ==
  /\ connection = 1 => (subscribed /\ keepAliveInterval = 1)
  /\ connection = 0 => (graceWaits + rejoinTimers + joining > 0)

\* C25, reached: the session was torn down and the rejoin is in flight.
C25_reached == connection = 0 /\ connStatus = "destroyed" /\ joining = 1

\* C26: the termination of a segment advances the cursor once and arms one
\* retry: a player error with the Idle that follows it advances by one and
\* arms one timer, and the Idle that follows a watchdog's kill moves no cursor
\* and arms no timer.
C26_OneAdvancePerTermination ==
  [][/\ (~isPausedDueToEmpty /\ Len(episodes) > 0 /\ PlayerStreamError)
          => /\ episodeIndex' = (episodeIndex + 1) % Len(episodes)
             /\ loopTimers' = loopTimers + 1
     /\ (exp.why = "watchdog" /\ PlayerStreamEnd)
          => (episodeIndex' = episodeIndex /\ loopTimers' = loopTimers)]_vars

\* C26, reached: A of [A, B, C] failed in mid-stream, the cursor is on C and
\* two retries are armed.
C26_reached ==
  episodes = <<"A", "B", "C">> /\ currentEpisode = "A" /\ episodeIndex = 2
    /\ loopTimers = 2 /\ playerStatus = "idle" /\ fetching = 0

\* C27: the Idle (or error) of a segment that a pause stopped moves no cursor,
\* resets no offset and arms no retry, whether it is delivered while the
\* paused flag is set or after a resume or a listener join has cleared it.
C27_IdleOfPausedSegmentInert ==
  [][(\/ isPausedDueToEmpty /\ (PlayerStreamEnd \/ PlayerStreamError)
      \/ playerStatus = "paused" /\ PlayerStreamEnd)
       => /\ episodeIndex' = episodeIndex
          /\ resumeOffsetMs' = resumeOffsetMs
          /\ loopTimers' = loopTimers]_vars

\* C27, reached: the channel emptied and the segment was paused and killed, a
\* listener joined and cleared the flag, and the player has not yet seen the
\* end of the killed stream.
C27_reached ==
  playerStatus = "paused" /\ playerRes = 1 /\ ~segs[1].alive /\ ~isPausedDueToEmpty
    /\ fetching = 1 /\ resumeOffsetMs > 0

\* A start is under way: a retry is armed, a start is in flight, or a control
\* handler is about to call playCurrent().
StartPending == loopTimers > 0 \/ fetching > 0 \/ pendingCalls > 0

\* C28: playback never halts: whenever the queue is non-empty, playback is not
\* paused and the segment that was spawned last has ended (the player is
\* Idle), a start is under way, also when that segment was started by a
\* control operation before any listener joined.
C28_NeverHalts ==
  (Len(episodes) > 0 /\ ~isPausedDueToEmpty /\ ffmpegProc = 1 /\ playerStatus = "idle")
    => StartPending

\* C28, reached: a segment has ended, playback is not paused and the retry of
\* the Idle listener is armed.
C28_reached ==
  Len(episodes) > 0 /\ ~isPausedDueToEmpty /\ ffmpegProc = 1 /\ playerStatus = "idle"
    /\ loopTimers = 1 /\ fetching = 0

\* C29: when a segment goes live and the collection was not replaced since its
\* start began, the episode it plays is the episode at the cursor; in
\* particular after a skip that was issued while the start was in flight and
\* whose own call of playCurrent() has been made.
C29_PlaysEpisodeAtCursor ==
  [][(exp.why = "inflight" /\ pendingCalls = 0 /\ PlayCurrentFetched)
       => currentEpisode' = EpisodeAt(episodeIndex', episodes')]_vars

\* C29, reached: a skip was issued while the first start was in flight, its
\* call of playCurrent() returned at the lock, and the start is still in
\* flight.
C29_reached ==
  exp.why = "inflight" /\ fetching = 1 /\ pendingCalls = 0 /\ dropped
    /\ EpisodeAt(episodeIndex, episodes) = exp.ep

\* C30: when the last listener leaves while the segment is still starting (its
\* start in flight, or spawned and the player not yet Playing) and no further
\* membership event comes, the segment does not play on into the empty
\* channel: no stretch of the episode is played.
C30_NoPlaybackIntoEmptyChannel ==
  (scn.phase = "s1left" /\ playerStatus = "playing") => now = startedAtMs

\* C30, reached: the listener left while the start of A was in flight; the
\* segment was spawned since and delivered its first bytes to a Buffering
\* player.
C30_reached ==
  scn.phase = "s1left" /\ playerStatus = "buffering" /\ segs[1].alive /\ segs[1].gotData
    /\ ~isPausedDueToEmpty

\* C31: while playback is paused by command and the listener is present, a
\* membership event that leaves the non-bot count above zero (a voice-state
\* change of the listener who is there) spawns nothing, begins no start and
\* does not clear the pause.
C31_PresentListenerKeepsManualPause ==
  [][(scn.phase = "mpaused" /\ VoiceStateUpdate(1))
       => /\ isPausedDueToEmpty'
          /\ fetching' = fetching
          /\ Cardinality({i \in DOMAIN segs' : segs'[i].alive}) <= Cardinality(Live)]_vars

\* C31, reached: the first listener joined, A played, and the listener, still
\* in the channel, paused it by command.
C31_reached ==
  scn.phase = "mpaused" /\ pausedBy.cause = "manual" /\ isPausedDueToEmpty
    /\ ffmpegProc = 0 /\ fetching = 0

Members(eps) == {eps[i] : i \in DOMAIN eps}

\* C33: the cursor is always an integer index, never NaN: no step moves it
\* while the collection is empty; and every step that begins a start on a
\* non-empty collection, also after a refresh that shrank the collection
\* below the cursor, selects episodes[episodeIndex mod length], a member of the
\* collection.
C33_CursorValid ==
  [][/\ episodeIndex' \in Nat
     /\ episodeIndex' # episodeIndex => Len(episodes) > 0
     /\ fetching' > fetching
          => /\ Len(episodes') > 0
             /\ currentEpisode' = episodes'[(episodeIndex' % Len(episodes')) + 1]
             /\ currentEpisode' \in Members(episodes')]_vars

\* C33, reached: the cursor was on C of [A, B, C], a refresh shrank the
\* collection to [A, B], and a start began: it selected A.
C33_reached ==
  episodes = <<"A", "B">> /\ episodeIndex = 2 /\ fetching = 1 /\ currentEpisode = "A"

\* C34: playLock is held exactly while an invocation of playCurrent is in
\* flight: whenever none is, also after the empty-queue return and after a
\* failed start, the lock is free and a call of playCurrent() is not dropped.
C34_LockFreeWhenIdle ==
  /\ playLock <=> fetching > 0
  /\ fetching = 0 => CallResult # "dropped"

\* C34, reached: a start was requested with an empty collection: playCurrent
\* returned early, armed its retry and the lock is free.
C34_reached ==
  Len(episodes) = 0 /\ hasStartedPlayback /\ loopTimers = 1 /\ fetching = 0 /\ ~playLock
====
